---- MODULE Spec2Model ----
(***************************************************************************)
(* Model of the all-pairs-shortest-path engine (Questão 2/floyd.py) and of *)
(* the synthetic graph generators (Questão 3/GeradorDeGrafos.py).          *)
(*                                                                         *)
(* Matrices are indexed 0..n-1 as in the source; Python lists are TLA+     *)
(* sequences, so the element at Python index i is s[i+1].                  *)
(***************************************************************************)
EXTENDS Integers, Sequences, FiniteSets, TLC

(***************************************************************************)
(* Bounds of the model.                                                    *)
(***************************************************************************)
NumVertices == 3        \* labels 1..NumVertices of the enumerated graphs
MaxEdges == 3           \* length of the enumerated edge lists
MaxGridN == 9           \* largest n_vertices given to grid_graph
MaxMazeN == 6           \* largest n_vertices given to grid_maze_like
MaxCubeN == 6           \* largest n_vertices given to hypercube_graph
MaxGeoN == 3            \* largest n_vertices given to random_geometric_graph
GeoRes == 1             \* sampled coordinates are k/(GeoRes+1), k in 0..GeoRes
MaxLoadN == 5           \* largest generated graph that is weighted and loaded
w_max == 2              \* the w_max given to _assign_weights
MaxNames == 2           \* vertex names 1..MaxNames given to the loader alone
MaxTriples == 3         \* length of the triple lists given to the loader alone

\* Edge weights of the enumerated graphs: a negative weight, so that negative
\* edges, zero cycles (-1 + 1) and negative cycles occur, and 1 + 1 = 2 ties.
Weights == {-1, 1, 2}

(***************************************************************************)
(* Values of the source.                                                   *)
(***************************************************************************)
\* float('inf'): only ever compared and added through Gt and Plus below.
Inf == 1000000
\* None in the next-hop matrix.
None == -1

\* a + b on Python floats where either side may be float('inf').
Plus(a, b) == IF a = Inf \/ b = Inf THEN Inf ELSE a + b

\* a > b on Python floats where either side may be float('inf').
Gt(a, b) == IF b = Inf THEN FALSE ELSE IF a = Inf THEN TRUE ELSE a > b

\* a < b, likewise.
Lt(a, b) == Gt(b, a)

Range(s) == {s[x] : x \in DOMAIN s}

(***************************************************************************)
(* The graph container (grafo.py, not part of the sources at hand): a      *)
(* vertex list and an edge list, each edge an ordered pair of endpoints    *)
(* with its element (section 3 of the specification: "Edge: an ordered     *)
(* pair (source, target) plus a real-valued weight"; "parallel edges       *)
(* between the same ordered pair are permitted at the container level";    *)
(* edge enumeration is in insertion order).                                *)
(***************************************************************************)
Graph(directed) == [directed |-> directed, verts |-> << >>, edgs |-> << >>]

insert_vertex(g, x) == [g EXCEPT !.verts = Append(@, x)]

insert_edge(g, u, v, x) == [g EXCEPT !.edgs = Append(@, <<u, v, x>>)]

\* g.vertices() and g.edges(); an edge e has endpoints <<e[1], e[2]>> and
\* element e[3].
GVertices(g) == g.verts

GEdges(g) == g.edgs

NoGraph == [directed |-> FALSE, verts |-> << >>, edgs |-> << >>]

(***************************************************************************)
(* criar_grafo: the loader.  A vertex object is identified by its label.   *)
(***************************************************************************)
RECURSIVE InsertAllVertices(_, _, _)
InsertAllVertices(g, nomes, k) ==
    IF k > Len(nomes) THEN g
    ELSE InsertAllVertices(insert_vertex(g, nomes[k]), nomes, k + 1)

\* The loop that gives up at the first triple with an unknown endpoint.
RECURSIVE InsertAllEdges_StopAtUnknown(_, _, _, _)
InsertAllEdges_StopAtUnknown(st, mapeamento, arestas, k) ==
    IF k > Len(arestas) THEN st
    ELSE LET u_nome == arestas[k][1]
             v_nome == arestas[k][2]
             peso == arestas[k][3]
         IN  IF u_nome \in mapeamento /\ v_nome \in mapeamento
             THEN InsertAllEdges_StopAtUnknown(
                      [st EXCEPT !.g = insert_edge(@, u_nome, v_nome, peso)],
                      mapeamento, arestas, k + 1)
             ELSE [st EXCEPT !.avisos = Append(@, <<u_nome, v_nome>>)]

\* The loop over arestas_dados from position k: st.g is the graph so far and
\* st.avisos the edges warned about and skipped.
RECURSIVE InsertAllEdges(_, _, _, _)
InsertAllEdges(st, mapeamento, arestas, k) ==
    IF k > Len(arestas) THEN st
    ELSE LET u_nome == arestas[k][1]
             v_nome == arestas[k][2]
             peso == arestas[k][3]
         IN  IF u_nome \in mapeamento /\ v_nome \in mapeamento
             THEN InsertAllEdges([st EXCEPT !.g = insert_edge(@, u_nome, v_nome, peso)],
                                 mapeamento, arestas, k + 1)
             ELSE InsertAllEdges([st EXCEPT !.avisos = Append(@, <<u_nome, v_nome>>)],
                                 mapeamento, arestas, k + 1)

criar_grafo(vertices_nomes, arestas_dados, dir) ==
    LET g0 == InsertAllVertices(Graph(dir), vertices_nomes, 1)
        mapeamento_vertices == Range(vertices_nomes)
    IN  InsertAllEdges([g |-> g0, avisos |-> << >>], mapeamento_vertices,
                       arestas_dados, 1)

(***************************************************************************)
(* floyd_warshall.                                                         *)
(***************************************************************************)
SetMin(S) == CHOOSE x \in S : \A y \in S : x <= y

\* sorted(list(g.vertices()), key=lambda v: v.element()) on distinct labels.
RECURSIVE SortedLabels(_)
SortedLabels(S) ==
    IF S = {} THEN << >>
    ELSE <<SetMin(S)>> \o SortedLabels(S \ {SetMin(S)})

\* v_para_idx[v]: the 0-based position of label v in the sorted list.
v_para_idx(vertices, v) == (CHOOSE p \in DOMAIN vertices : vertices[p] = v) - 1

\* Lines 27-32: the matrices before any edge is read.
InitMatrices(n) ==
    [dist |-> [i \in 0..(n-1) |-> [j \in 0..(n-1) |-> IF i = j THEN 0 ELSE Inf]],
     prox |-> [i \in 0..(n-1) |-> [j \in 0..(n-1) |-> IF i = j THEN i ELSE None]]]

\* The seeding without its comparison: the last edge read wins.
SeedEdge_LastWins(m, i, j, w) ==
    [dist |-> [m.dist EXCEPT ![i][j] = w],
     prox |-> [m.prox EXCEPT ![i][j] = j]]

\* Lines 38-40: one edge of the seeding loop.
SeedEdge(m, i, j, w) ==
    IF Lt(w, m.dist[i][j])
    THEN [dist |-> [m.dist EXCEPT ![i][j] = w],
          prox |-> [m.prox EXCEPT ![i][j] = j]]
    ELSE m

\* Lines 34-40: the seeding loop from edge k on.
RECURSIVE SeedFrom(_, _, _, _)
SeedFrom(m, vertices, edges, k) ==
    IF k > Len(edges) THEN m
    ELSE SeedFrom(SeedEdge(m, v_para_idx(vertices, edges[k][1]),
                              v_para_idx(vertices, edges[k][2]), edges[k][3]),
                  vertices, edges, k + 1)

\* The relaxation taking the next hop from prox[k][j] instead of prox[i][k].
RelaxCell_ProxFromK(m, k, i, j) ==
    LET custo_via_k == Plus(m.dist[i][k], m.dist[k][j])
    IN  IF Gt(m.dist[i][j], custo_via_k)
        THEN [dist |-> [m.dist EXCEPT ![i][j] = custo_via_k],
              prox |-> [m.prox EXCEPT ![i][j] = m.prox[k][j]]]
        ELSE m

\* Lines 46-50: the body of the innermost loop.
RelaxCell(m, k, i, j) ==
    LET custo_via_k == Plus(m.dist[i][k], m.dist[k][j])
    IN  IF Gt(m.dist[i][j], custo_via_k)
        THEN [dist |-> [m.dist EXCEPT ![i][j] = custo_via_k],
              prox |-> [m.prox EXCEPT ![i][j] = m.prox[i][k]]]
        ELSE m

\* len(dist): the n of the loops.
Size(m) == Cardinality(DOMAIN m.dist)

\* Lines 44-50: the loop over j, from j on, for fixed k and i.
RECURSIVE RelaxJ(_, _, _, _)
RelaxJ(m, k, i, j) ==
    IF j >= Size(m) THEN m ELSE RelaxJ(RelaxCell(m, k, i, j), k, i, j + 1)

\* Lines 43-50: the loop over i, from i on, for fixed k.
RECURSIVE RelaxI(_, _, _)
RelaxI(m, k, i) ==
    IF i >= Size(m) THEN m ELSE RelaxI(RelaxJ(m, k, i, 0), k, i + 1)

\* The loop over k stopping one vertex short.
RECURSIVE RelaxK_SkipLast(_, _)
RelaxK_SkipLast(m, k) ==
    IF k >= Size(m) - 1 THEN m ELSE RelaxK_SkipLast(RelaxI(m, k, 0), k + 1)

\* Lines 42-50: the loop over k, from k on; the matrices are updated in place.
RECURSIVE RelaxK(_, _)
RelaxK(m, k) ==
    IF k >= Size(m) THEN m ELSE RelaxK(RelaxI(m, k, 0), k + 1)

\* Lines 52-54: the labels a negative-cycle warning is printed for.
Alertas(m, vertices) ==
    {vertices[i + 1] : i \in {x \in 0..(Len(vertices) - 1) : m.dist[x][x] < 0}}

floyd_warshall(g) ==
    LET vertices == SortedLabels(Range(GVertices(g)))
        n == Len(vertices)
        seeded == SeedFrom(InitMatrices(n), vertices, GEdges(g), 1)
        m == RelaxK(seeded, 0)
    IN  [dist |-> m.dist, prox |-> m.prox, vertices |-> vertices,
         alertas |-> Alertas(m, vertices)]

(***************************************************************************)
(* GeradorDeGrafos.py.  A call ends with outcome "returned" and its        *)
(* (vertices, edges), or with the name of the exception it raised.         *)
(***************************************************************************)
Returned(vs, es) == [outcome |-> "returned", vertices |-> vs, edges |-> es]

Raised(exc) == [outcome |-> exc, vertices |-> << >>, edges |-> << >>]

\* _assign_weights, line 37: the default w_min.
w_min == 1

\* math.ceil(math.sqrt(n)) for n >= 0.
CeilSqrt(n) == CHOOSE c \in 0..n : c * c >= n /\ \A b \in 0..(c - 1) : b * b < n

\* math.ceil(a / b) for a >= 0 and b > 0.
CeilDiv(a, b) == (a + b - 1) \div b

\* Lines 66-70 (and 102): the first n cells of the lattice in row-major order.
GridCoords(rows, cols, n) ==
    LET all == [p \in 1..(rows * cols) |-> <<(p - 1) \div cols, (p - 1) % cols>>]
    IN  SubSeq(all, 1, IF n < rows * cols THEN n ELSE rows * cols)

\* "rc in index_of" and index_of[rc], for index_of = {coords[i]: i}.
InIndex(coords, rc) == \E p \in DOMAIN coords : coords[p] = rc

IndexOf(coords, rc) == (CHOOSE p \in DOMAIN coords : coords[p] = rc) - 1

\* Cell edges that take the next cell in row-major order for the right
\* neighbour, whatever row it is in.
CellEdges_WrapRight(coords, i, connect_diagonals) ==
    LET r == coords[i + 1][1]
        c == coords[i + 1][2]
        to(rc) == IF InIndex(coords, rc)
                  THEN << <<i + 1, IndexOf(coords, rc) + 1>> >> ELSE << >>
    IN  (IF i + 2 <= Len(coords) THEN << <<i + 1, i + 2>> >> ELSE << >>)
        \o to(<<r + 1, c>>)

\* Lines 76-87 (and 107-114): the edges added for cell number i (0-based);
\* the label of cell i is vertices[i] = i + 1.
CellEdges(coords, i, connect_diagonals) ==
    LET r == coords[i + 1][1]
        c == coords[i + 1][2]
        to(rc) == IF InIndex(coords, rc)
                  THEN << <<i + 1, IndexOf(coords, rc) + 1>> >> ELSE << >>
    IN  to(<<r, c + 1>>) \o to(<<r + 1, c>>) \o
        (IF connect_diagonals
         THEN to(<<r + 1, c + 1>>) \o to(<<r + 1, c - 1>>) ELSE << >>)

\* The loop of lines 76-87 from cell i on.
RECURSIVE GridEdges(_, _, _)
GridEdges(coords, i, connect_diagonals) ==
    IF i >= Len(coords) THEN << >>
    ELSE CellEdges(coords, i, connect_diagonals)
         \o GridEdges(coords, i + 1, connect_diagonals)

\* grid_graph: math.sqrt raises ValueError on a negative number, and
\* n_vertices / cols raises ZeroDivisionError when cols is 0.
grid_graph(n_vertices, connect_diagonals) ==
    IF n_vertices < 0 THEN Raised("ValueError")
    ELSE LET cols == CeilSqrt(n_vertices)
         IN  IF cols = 0 THEN Raised("ZeroDivisionError")
             ELSE LET rows == CeilDiv(n_vertices, cols)
                      coords == GridCoords(rows, cols, n_vertices)
                      vertices == [p \in 1..Len(coords) |-> p]
                  IN  Returned(vertices, GridEdges(coords, 0, connect_diagonals))

\* Lines 119-123: find with path halving; the list parent is updated on the
\* way, so the result is the root and the list.
RECURSIVE Find(_, _)
Find(parent, a) ==
    IF parent[a] = a THEN [root |-> a, parent |-> parent]
    ELSE LET halved == [parent EXCEPT ![a] = parent[parent[a]]]
         IN  Find(halved, halved[a])

\* A union that links the two vertices instead of their roots.
Union_NoRoots(parent, a, b) == [parent EXCEPT ![a] = b]

\* Lines 124-126: union.
Union(parent, a, b) ==
    LET ra == Find(parent, a)
        rb == Find(ra.parent, b)
    IN  [rb.parent EXCEPT ![ra.root] = rb.root]

\* Lines 132-136: the body of the loop over the shuffled candidate edges.
MazeTry(parent, edges, e) ==
    LET ui == e[1] - 1
        vi == e[2] - 1
        fu == Find(parent, ui)
        fv == Find(fu.parent, vi)
    IN  IF fu.root # fv.root
        THEN [parent |-> Union(fv.parent, ui, vi), edges |-> Append(edges, e)]
        ELSE [parent |-> fv.parent, edges |-> edges]

\* Line 138: int(0.15 * len(possible)).
Extras(possible) == (15 * Len(possible)) \div 100

\* Line 139: the candidate edges not in the tree in either direction, in the
\* order of possible.
RECURSIVE Candidates(_, _, _)
Candidates(possible, edges, k) ==
    IF k > Len(possible) THEN << >>
    ELSE LET e == possible[k]
         IN  (IF e \notin Range(edges) /\ <<e[2], e[1]>> \notin Range(edges)
              THEN <<e>> ELSE << >>) \o Candidates(possible, edges, k + 1)

\* The lists of k distinct members of the list c: what candidates[:k] can be
\* after rnd.shuffle(candidates) (all of c, in some order, when k >= len(c)).
Prefixes(c, k) ==
    LET len == IF k < Len(c) THEN k ELSE Len(c)
    IN  {[p \in 1..len |-> c[f[p]]] :
            f \in {g \in [1..len -> DOMAIN c] :
                      \A x \in 1..len, y \in 1..len : x # y => g[x] # g[y]}}

\* The test of line 166 with "<" for "<=".
Within_Strict(p, q, radius) ==
    LET dx == p[1] - q[1]
        dy == p[2] - q[2]
    IN  dx * dx + dy * dy < radius * radius

\* Lines 165-166: the two points are within radius of each other.
Within(p, q, radius) ==
    LET dx == p[1] - q[1]
        dy == p[2] - q[2]
    IN  dx * dx + dy * dy <= radius * radius

\* Lines 161-167: the pairs (i, j), i < j, in the order the loops add them.
RECURSIVE GeoEdges(_, _, _, _)
GeoEdges(points, radius, i, j) ==
    IF i > Len(points) THEN << >>
    ELSE IF j > Len(points) THEN GeoEdges(points, radius, i + 1, i + 2)
    ELSE (IF Within(points[i], points[j], radius) THEN << <<i, j>> >> ELSE << >>)
         \o GeoEdges(points, radius, i, j + 1)

\* random_geometric_graph with an explicit radius and the sampled points;
\* range(n_vertices) is empty for n_vertices <= 0.
random_geometric_graph(n_vertices, points, radius) ==
    Returned([p \in 1..n_vertices |-> p], GeoEdges(points, radius, 1, 2))

\* Line 178: math.ceil(math.log2(max(1, n_vertices))).
CeilLog2(n) ==
    LET m == IF n < 1 THEN 1 ELSE n
    IN  CHOOSE d \in 0..m : 2^d >= m /\ \A b \in 0..(d - 1) : 2^b < m

\* Line 195: b ^ (1 << bit).
FlipBit(b, bit) ==
    IF (b \div 2^bit) % 2 = 0 THEN b + 2^bit ELSE b - 2^bit

\* Lines 181-186: the hypercube's vertices that survive the removal.
RECURSIVE Ascending(_)
Ascending(S) ==
    IF S = {} THEN << >>
    ELSE <<SetMin(S)>> \o Ascending(S \ {SetMin(S)})

\* Lines 189 and 197: index_map[b].
IndexMap(vertices_binary, b) ==
    CHOOSE p \in DOMAIN vertices_binary : vertices_binary[p] = b

\* Lines 194-198: the edges added for the p-th surviving vertex, bit by bit.
RECURSIVE CubeEdgesOf(_, _, _, _)
CubeEdgesOf(vertices_binary, d, p, bit) ==
    IF bit >= d THEN << >>
    ELSE LET b == vertices_binary[p]
             nb == FlipBit(b, bit)
         IN  (IF nb \in Range(vertices_binary) /\ nb > b
              THEN << <<p, IndexMap(vertices_binary, nb)>> >> ELSE << >>)
             \o CubeEdgesOf(vertices_binary, d, p, bit + 1)

\* Lines 192-198: the loop over the surviving vertices from the p-th on.
RECURSIVE CubeEdges(_, _, _)
CubeEdges(vertices_binary, d, p) ==
    IF p > Len(vertices_binary) THEN << >>
    ELSE CubeEdgesOf(vertices_binary, d, p, 0) \o CubeEdges(vertices_binary, d, p + 1)

\* Lines 203-205: adj[x], in the order the edges list fills it.
RECURSIVE Adj(_, _, _)
Adj(edges, x, k) ==
    IF k > Len(edges) THEN << >>
    ELSE (IF edges[k][1] = x THEN <<edges[k][2]>>
          ELSE IF edges[k][2] = x THEN <<edges[k][1]>> ELSE << >>)
         \o Adj(edges, x, k + 1)

\* Lines 211-213: the loop over adj[x] from its k-th entry on.
RECURSIVE Visit(_, _, _, _)
Visit(visited, q, nbs, k) ==
    IF k > Len(nbs) THEN [visited |-> visited, q |-> q]
    ELSE IF nbs[k] \notin visited
         THEN Visit(visited \cup {nbs[k]}, Append(q, nbs[k]), nbs, k + 1)
         ELSE Visit(visited, q, nbs, k + 1)

\* Line 217: [v for v in vertices if v in kept]
RECURSIVE KeptVertices(_, _, _)
KeptVertices(vertices, kept, k) ==
    IF k > Len(vertices) THEN << >>
    ELSE (IF vertices[k] \in kept THEN <<vertices[k]>> ELSE << >>)
         \o KeptVertices(vertices, kept, k + 1)

\* Line 218: [(u,v) for (u,v) in edges if u in kept and v in kept]
RECURSIVE KeptEdges(_, _, _)
KeptEdges(edges, kept, k) ==
    IF k > Len(edges) THEN << >>
    ELSE (IF edges[k][1] \in kept /\ edges[k][2] \in kept
          THEN <<edges[k]>> ELSE << >>)
         \o KeptEdges(edges, kept, k + 1)

\* The pruning that filters the vertices and forgets the edges.
Prune_VerticesOnly(vertices, edges, visited) ==
    IF Cardinality(visited) < Len(vertices)
    THEN Returned(KeptVertices(vertices, visited, 1), edges)
    ELSE Returned(vertices, edges)

\* Lines 214-220: keep the visited vertices and the edges among them.
Prune(vertices, edges, visited) ==
    IF Cardinality(visited) < Len(vertices)
    THEN Returned(KeptVertices(vertices, visited, 1),
                  KeptEdges(edges, visited, 1))
    ELSE Returned(vertices, edges)

(***************************************************************************)
(* reconstruir_caminho_floyd returns a list of labels on success and the   *)
(* tuple (None, float('inf')) otherwise; a returned value is its type tag  *)
(* and its items.                                                          *)
(***************************************************************************)
Unset == [tipo |-> "unset", itens |-> << >>]

\* return None, float('inf')
NoPathTuple == [tipo |-> "tuple", itens |-> <<None, Inf>>]

\* return caminho
PathList(caminho) == [tipo |-> "list", itens |-> caminho]

\* Python truth value of a list or tuple: it is non-empty.
Truthy(r) == Len(r.itens) > 0

(***************************************************************************)
(* The inputs.                                                             *)
(***************************************************************************)
Labels == 1..NumVertices

Triples == Labels \X Labels \X Weights

LexLeq(a, b) ==
    \/ a[1] < b[1]
    \/ a[1] = b[1] /\ a[2] < b[2]
    \/ a[1] = b[1] /\ a[2] = b[2] /\ a[3] <= b[3]

\* The vertex names in ascending and in descending order.
VertexLists ==
    {[p \in 1..NumVertices |-> p], [p \in 1..NumVertices |-> NumVertices + 1 - p]}

\* The scenario of the __main__ block of floyd.py.
DemoVertices == <<1, 2, 3, 4, 5, 6>>

DemoArestas ==
    << <<1, 2, 2>>, <<3, 1, -4>>, <<3, 2, 3>>, <<3, 4, -7>>, <<4, 1, 2>>,
       <<5, 3, 10>>, <<5, 4, 5>>, <<5, 6, 4>>, <<6, 1, 5>>, <<6, 4, 1>> >>

(***************************************************************************)
(* State.                                                                  *)
(***************************************************************************)
VARIABLES
    pc,               \* position of the driver
    lista_vertices,   \* vertex names given to criar_grafo
    lista_arestas,    \* edge triples given to criar_grafo
    direcionado,      \* the direcionado argument
    G,                \* the graph criar_grafo returned
    avisos,           \* edges criar_grafo warned about and skipped
    dist_matrix,      \* floyd_warshall's dist
    prox_matrix,      \* floyd_warshall's prox
    vertices_fw,      \* floyd_warshall's sorted vertex list
    alertas,          \* labels a negative-cycle warning was printed for
    idx_inicio,       \* argument i of reconstruir_caminho_floyd
    idx_fim,          \* argument j of reconstruir_caminho_floyd
    atual_idx,        \* its loop variable
    caminho,          \* its list under construction
    passos,           \* how many times the loop has read prox[atual_idx][j]
    caminho_fw,       \* what it returned
    ramo,             \* the branch of "if caminho_fw" the driver took
    gpc,              \* position of the generator call
    kind,             \* which generator was called
    n_vertices,       \* its n_vertices argument
    radius,           \* random_geometric_graph's radius, in coordinate units
    points,           \* random_geometric_graph's sampled points
    outcome,          \* "returned" or the exception raised
    gen_vertices,     \* the generator's list vertices
    gen_edges,        \* the generator's list edges
    possible,         \* grid_maze_like's candidate edges
    shuffled,         \* the shuffled candidates the loop has still to visit
    parent,           \* grid_maze_like's union-find list
    visited,          \* hypercube_graph's set visited
    q,                \* hypercube_graph's deque
    to_remove,        \* hypercube_graph's removal sample
    meta              \* the 'meta' record make_all_graphs stores

fwvars == <<pc, lista_vertices, lista_arestas, direcionado, G, avisos,
            dist_matrix, prox_matrix, vertices_fw, alertas, idx_inicio,
            idx_fim, atual_idx, caminho, passos, caminho_fw, ramo>>

genvars == <<gpc, kind, n_vertices, radius, points, outcome, gen_vertices,
             gen_edges, possible, shuffled, parent, visited, q, to_remove,
             meta>>

vars == <<fwvars, genvars>>

GenIdle ==
    /\ gpc = "idle"
    /\ kind = "none"
    /\ n_vertices = 0
    /\ radius = 0
    /\ points = << >>
    /\ outcome = "none"
    /\ gen_vertices = << >>
    /\ gen_edges = << >>
    /\ possible = << >>
    /\ shuffled = {}
    /\ parent = << >>
    /\ visited = {}
    /\ q = << >>
    /\ to_remove = {}
    /\ meta = [raw_edges |-> None, actual_vertices |-> None]

NumVerticesOf == Len(vertices_fw)

FWIdle ==
    /\ G = NoGraph
    /\ avisos = << >>
    /\ dist_matrix = << >>
    /\ prox_matrix = << >>
    /\ vertices_fw = << >>
    /\ alertas = {}
    /\ idx_inicio = None
    /\ idx_fim = None
    /\ atual_idx = None
    /\ caminho = << >>
    /\ passos = 0
    /\ caminho_fw = Unset
    /\ ramo = "none"

\* Lines 102-115: the vertex list in either order with the edge list still
\* to be written, or both lists as floyd.py writes them.
FWInit ==
    /\ pc = "start"
    /\ direcionado = TRUE
    /\ \/ lista_vertices \in VertexLists /\ lista_arestas = << >>
       \/ lista_vertices = DemoVertices /\ lista_arestas = DemoArestas
    /\ FWIdle
    /\ GenIdle

\* Lines 104-115: the caller writes one more triple into the edge list, up to
\* MaxEdges of them.  The lists are written in ascending order, one list per
\* multiset of triples: the matrices do not depend on the order the edges are
\* read in, since the seeding keeps the least weight of each ordered pair.
EscolherAresta ==
    /\ pc = "start"
    /\ lista_vertices \in VertexLists
    /\ Len(lista_arestas) < MaxEdges
    /\ \E t \in Triples :
          /\ IF lista_arestas = << >> THEN TRUE
             ELSE LexLeq(lista_arestas[Len(lista_arestas)], t)
          /\ lista_arestas' = Append(lista_arestas, t)
    /\ UNCHANGED <<pc, lista_vertices, direcionado, G, avisos, dist_matrix,
                   prox_matrix, vertices_fw, alertas, idx_inicio, idx_fim,
                   atual_idx, caminho, passos, caminho_fw, ramo>>
    /\ UNCHANGED genvars

\* Line 117 (and main.py's callers): the loader builds the graph.
CriarGrafo ==
    /\ pc = "start"
    /\ LET r == criar_grafo(lista_vertices, lista_arestas, direcionado)
       IN  G' = r.g /\ avisos' = r.avisos
    /\ pc' = "loaded"
    /\ UNCHANGED <<lista_vertices, lista_arestas, direcionado, dist_matrix,
                   prox_matrix, vertices_fw, alertas, idx_inicio, idx_fim,
                   atual_idx, caminho, passos, caminho_fw, ramo>>
    /\ UNCHANGED genvars

\* Line 121: dist_matrix, prox_matrix, vertices_fw = floyd_warshall(G).
FloydWarshall ==
    /\ pc = "loaded"
    /\ LET r == floyd_warshall(G)
       IN  /\ dist_matrix' = r.dist
           /\ prox_matrix' = r.prox
           /\ vertices_fw' = r.vertices
           /\ alertas' = r.alertas
    /\ pc' = "fw"
    /\ UNCHANGED <<lista_vertices, lista_arestas, direcionado, G, avisos,
                   idx_inicio, idx_fim, atual_idx, caminho, passos,
                   caminho_fw, ramo>>
    /\ UNCHANGED genvars

\* Lines 129-136 and 59-63: the driver resolves two labels to indices and
\* enters reconstruir_caminho_floyd, which returns at once when prox[i][j] is
\* None.
Reconstruir ==
    /\ pc = "fw"
    /\ \E rotulo_inicio \in Range(vertices_fw), rotulo_fim \in Range(vertices_fw) :
          LET i == v_para_idx(vertices_fw, rotulo_inicio)
              j == v_para_idx(vertices_fw, rotulo_fim)
          IN  /\ idx_inicio' = i
              /\ idx_fim' = j
              /\ IF prox_matrix[i][j] = None
                 THEN /\ caminho_fw' = NoPathTuple
                      /\ pc' = "returned"
                      /\ atual_idx' = atual_idx
                 ELSE /\ caminho_fw' = caminho_fw
                      /\ pc' = "walk"
                      /\ atual_idx' = i
    /\ caminho' = << >>
    /\ passos' = 0
    /\ UNCHANGED <<lista_vertices, lista_arestas, direcionado, G, avisos,
                   dist_matrix, prox_matrix, vertices_fw, alertas, ramo>>
    /\ UNCHANGED genvars

\* Lines 65-70: one iteration of the while loop.  The model stops counting
\* once the loop has read prox more often than there are vertices.
WalkStep ==
    /\ pc = "walk"
    /\ atual_idx # idx_fim
    /\ passos <= NumVerticesOf
    /\ caminho' = Append(caminho, vertices_fw[atual_idx + 1])
    /\ atual_idx' = prox_matrix[atual_idx][idx_fim]
    /\ passos' = passos + 1
    /\ IF prox_matrix[atual_idx][idx_fim] = None
       THEN caminho_fw' = NoPathTuple /\ pc' = "returned"
       ELSE caminho_fw' = caminho_fw /\ pc' = "walk"
    /\ UNCHANGED <<lista_vertices, lista_arestas, direcionado, G, avisos,
                   dist_matrix, prox_matrix, vertices_fw, alertas, idx_inicio,
                   idx_fim, ramo>>
    /\ UNCHANGED genvars

\* Lines 65 and 72-74: the loop condition fails, the label of j is appended
\* and the list returned.
WalkExit ==
    /\ pc = "walk"
    /\ atual_idx = idx_fim
    /\ caminho' = Append(caminho, vertices_fw[idx_fim + 1])
    /\ caminho_fw' = PathList(caminho')
    /\ pc' = "returned"
    /\ UNCHANGED <<lista_vertices, lista_arestas, direcionado, G, avisos,
                   dist_matrix, prox_matrix, vertices_fw, alertas, idx_inicio,
                   idx_fim, atual_idx, passos, ramo>>
    /\ UNCHANGED genvars

\* Lines 139-143: "if caminho_fw" prints the path, else "not found".
Driver ==
    /\ pc = "returned"
    /\ ramo' = IF Truthy(caminho_fw) THEN "caminho" ELSE "nao_encontrado"
    /\ pc' = "printed"
    /\ UNCHANGED <<lista_vertices, lista_arestas, direcionado, G, avisos,
                   dist_matrix, prox_matrix, vertices_fw, alertas, idx_inicio,
                   idx_fim, atual_idx, caminho, passos, caminho_fw>>
    /\ UNCHANGED genvars

\* The loader, the engine, the path reconstruction and the driver's branch.
FWNext ==
    \/ EscolherAresta
    \/ CriarGrafo
    \/ FloydWarshall
    \/ Reconstruir
    \/ WalkStep
    \/ WalkExit
    \/ Driver

SpecFW == FWInit /\ [][FWNext]_vars

(***************************************************************************)
(* The generators.                                                         *)
(***************************************************************************)
GenInit ==
    /\ pc = "off"
    /\ lista_vertices = << >>
    /\ lista_arestas = << >>
    /\ direcionado = FALSE
    /\ FWIdle
    /\ GenIdle

\* The vertex counts a generator is called with: the invalid -1 and 0, and
\* 1..max.
Sizes(max) == {-1, 0} \cup 1..max

\* Where a call that ended with result r stands.
After(r) == IF r.outcome = "returned" THEN "returned" ELSE "raised"

\* grid_graph(n) as make_all_graphs calls it, without diagonals.
CallGridGraph ==
    /\ gpc = "idle"
    /\ \E n \in Sizes(MaxGridN) :
          LET r == grid_graph(n, FALSE)
          IN  /\ n_vertices' = n
              /\ outcome' = r.outcome
              /\ gen_vertices' = r.vertices
              /\ gen_edges' = r.edges
              /\ gpc' = After(r)
    /\ kind' = "grid"
    /\ UNCHANGED <<radius, points, possible, shuffled, parent, visited, q,
                   to_remove, meta>>
    /\ UNCHANGED fwvars

\* Lines 97-130: grid_maze_like up to its loop; shuffled is the set of
\* positions of possible the loop has still to visit, in whatever order the
\* shuffle put them.
CallGridMazeLike ==
    /\ gpc = "idle"
    /\ \E nv \in Sizes(MaxMazeN) :
          LET g == grid_graph(nv, FALSE)
              n == Len(g.vertices)
              cols == CeilSqrt(n)
              rows == CeilDiv(n, cols)
              coords == GridCoords(rows, cols, n)
          IN  /\ n_vertices' = nv
              /\ IF g.outcome # "returned"
                 THEN /\ outcome' = g.outcome
                      /\ gpc' = "raised"
                      /\ UNCHANGED <<gen_vertices, possible, shuffled, parent>>
                 ELSE /\ outcome' = "running"
                      /\ gpc' = "maze_loop"
                      /\ gen_vertices' = g.vertices
                      /\ possible' = GridEdges(coords, 0, FALSE)
                      /\ shuffled' = DOMAIN possible'
                      /\ parent' = [a \in 0..(n - 1) |-> a]
    /\ kind' = "maze"
    /\ gen_edges' = << >>
    /\ UNCHANGED <<radius, points, visited, q, to_remove, meta>>
    /\ UNCHANGED fwvars

\* Lines 131-136: one iteration of the loop over the shuffled candidates.
MazeLoop ==
    /\ gpc = "maze_loop"
    /\ \E k \in shuffled :
          LET r == MazeTry(parent, gen_edges, possible[k])
          IN  /\ parent' = r.parent
              /\ gen_edges' = r.edges
              /\ shuffled' = shuffled \ {k}
    /\ UNCHANGED <<gpc, kind, n_vertices, radius, points, outcome, gen_vertices,
                   possible, visited, q, to_remove, meta>>
    /\ UNCHANGED fwvars

\* Lines 138-143: the loop is over; the extra edges are appended and the
\* graph returned.
MazeReturn ==
    /\ gpc = "maze_loop"
    /\ shuffled = {}
    /\ \E extra \in Prefixes(Candidates(possible, gen_edges, 1), Extras(possible)) :
          gen_edges' = gen_edges \o extra
    /\ outcome' = "returned"
    /\ gpc' = "returned"
    /\ UNCHANGED <<kind, n_vertices, radius, points, gen_vertices, possible,
                   shuffled, parent, visited, q, to_remove, meta>>
    /\ UNCHANGED fwvars

\* The coordinates rnd.random() is taken to return, in units of 1/(GeoRes+1).
Coordinates == 0..GeoRes

\* The explicit radii, in the same units.
Radii == {-1, 0, 1}

\* random_geometric_graph(n, radius=r) with its n sampled points.
CallRandomGeometric ==
    /\ gpc = "idle"
    /\ \E n \in Sizes(MaxGeoN), r \in Radii :
          \E pts \in [1..n -> Coordinates \X Coordinates] :
              LET res == random_geometric_graph(n, pts, r)
              IN  /\ n_vertices' = n
                  /\ radius' = r
                  /\ points' = pts
                  /\ outcome' = res.outcome
                  /\ gen_vertices' = res.vertices
                  /\ gen_edges' = res.edges
                  /\ gpc' = After(res)
    /\ kind' = "geometric"
    /\ UNCHANGED <<possible, shuffled, parent, visited, q, to_remove, meta>>
    /\ UNCHANGED fwvars

\* Lines 183-185: what rnd.sample(vertices_binary, remove_count) can do: it
\* raises ValueError when asked for more than the population, and returns
\* any remove_count of the N vertices otherwise.
Samples(n, N) ==
    IF N > n
    THEN IF N - n > N
         THEN {[outcome |-> "ValueError", to_remove |-> {}]}
         ELSE {[outcome |-> "running", to_remove |-> S] :
                  S \in {T \in SUBSET (0..(N - 1)) : Cardinality(T) = N - n}}
    ELSE {[outcome |-> "running", to_remove |-> {}]}

\* Lines 177-208: hypercube_graph up to its breadth-first loop.
CallHypercube ==
    /\ gpc = "idle"
    /\ \E n \in Sizes(MaxCubeN) :
          LET d == CeilLog2(n)
              N == 2^d
          IN  \E s \in Samples(n, N) :
                  LET vertices_binary == Ascending((0..(N - 1)) \ s.to_remove)
                      vertices == [p \in 1..Len(vertices_binary) |-> p]
                      edges == CubeEdges(vertices_binary, d, 1)
                  IN  /\ n_vertices' = n
                      /\ to_remove' = s.to_remove
                      /\ IF s.outcome # "running"
                         THEN /\ outcome' = s.outcome
                              /\ gpc' = "raised"
                              /\ UNCHANGED <<gen_vertices, gen_edges, visited, q>>
                         ELSE /\ gen_vertices' = vertices
                              /\ gen_edges' = edges
                              /\ IF Len(vertices) > 0
                                 THEN /\ visited' = {vertices[1]}
                                      /\ q' = <<vertices[1]>>
                                      /\ outcome' = "running"
                                      /\ gpc' = "cube_bfs"
                                 ELSE /\ UNCHANGED <<visited, q>>
                                      /\ outcome' = "returned"
                                      /\ gpc' = "returned"
    /\ kind' = "hypercube"
    /\ UNCHANGED <<radius, points, possible, shuffled, parent, meta>>
    /\ UNCHANGED fwvars

\* Lines 209-213: one iteration of "while q".
CubeBFS ==
    /\ gpc = "cube_bfs"
    /\ q # << >>
    /\ LET x == Head(q)
           r == Visit(visited, Tail(q), Adj(gen_edges, x, 1), 1)
       IN  visited' = r.visited /\ q' = r.q
    /\ UNCHANGED <<gpc, kind, n_vertices, radius, points, outcome, gen_vertices,
                   gen_edges, possible, shuffled, parent, to_remove, meta>>
    /\ UNCHANGED fwvars

\* Lines 214-220: the queue is empty; prune and return.
CubeReturn ==
    /\ gpc = "cube_bfs"
    /\ q = << >>
    /\ LET r == Prune(gen_vertices, gen_edges, visited)
       IN  gen_vertices' = r.vertices /\ gen_edges' = r.edges
    /\ outcome' = "returned"
    /\ gpc' = "returned"
    /\ UNCHANGED <<kind, n_vertices, radius, points, possible, shuffled, parent,
                   visited, q, to_remove, meta>>
    /\ UNCHANGED fwvars

\* make_all_graphs, lines 248, 253, 258 and 263: the 'meta' record stored
\* with a generated graph.
RegistrarMeta ==
    /\ gpc = "returned"
    /\ meta' = [raw_edges |-> Len(gen_edges),
                actual_vertices |-> IF kind = "hypercube" THEN Len(gen_vertices)
                                    ELSE None]
    /\ gpc' = "recorded"
    /\ UNCHANGED <<kind, n_vertices, radius, points, outcome, gen_vertices,
                   gen_edges, possible, shuffled, parent, visited, q, to_remove>>
    /\ UNCHANGED fwvars

GenNext ==
    \/ CallGridGraph
    \/ CallGridMazeLike
    \/ MazeLoop
    \/ MazeReturn
    \/ CallRandomGeometric
    \/ CallHypercube
    \/ CubeBFS
    \/ CubeReturn
    \/ RegistrarMeta

SpecGen == GenInit /\ [][GenNext]_vars

(***************************************************************************)
(* A generated grid, weighted, loaded as an undirected graph and given to  *)
(* the engine.                                                             *)
(***************************************************************************)
\* build_weighted_graph / _assign_weights (uniform mode): every pair gets an
\* integer weight int(round(rnd.uniform(w_min, w_max))), and the lists go to
\* criar_grafo(vertices, edges, direcionado=False).
AtribuirPesos ==
    /\ gpc = "returned"
    /\ pc = "off"
    /\ Len(gen_vertices) <= MaxLoadN
    /\ \E ws \in [1..Len(gen_edges) -> w_min..w_max] :
          lista_arestas' =
              [k \in 1..Len(gen_edges) |-> <<gen_edges[k][1], gen_edges[k][2], ws[k]>>]
    /\ lista_vertices' = gen_vertices
    /\ direcionado' = FALSE
    /\ pc' = "start"
    /\ gpc' = "weighted"
    /\ UNCHANGED <<G, avisos, dist_matrix, prox_matrix, vertices_fw, alertas,
                   idx_inicio, idx_fim, atual_idx, caminho, passos, caminho_fw,
                   ramo>>
    /\ UNCHANGED <<kind, n_vertices, radius, points, outcome, gen_vertices,
                   gen_edges, possible, shuffled, parent, visited, q, to_remove,
                   meta>>

LoadNext ==
    \/ CallGridGraph
    \/ AtribuirPesos
    \/ CriarGrafo
    \/ FloydWarshall

SpecLoad == GenInit /\ [][LoadNext]_vars

(***************************************************************************)
(* The loader on its own: criar_grafo on a vertex-name list and any        *)
(* sequence of triples, in any order, some naming vertices not listed.     *)
(***************************************************************************)
\* The vertex-name lists: 1..k for every k up to MaxNames, so that the names
\* above k are unknown to the loader.
NameLists == {[p \in 1..k |-> p] : k \in 0..MaxNames}

\* The triples (u_nome, v_nome, peso) a caller may write.
LoaderTriples == (1..MaxNames) \X (1..MaxNames) \X {1, 2}

LoaderInit ==
    /\ pc = "start"
    /\ direcionado = TRUE
    /\ lista_vertices \in NameLists
    /\ lista_arestas = << >>
    /\ FWIdle
    /\ GenIdle

\* The caller writes one more triple at the end of arestas_dados.
EscolherTripla ==
    /\ pc = "start"
    /\ Len(lista_arestas) < MaxTriples
    /\ \E t \in LoaderTriples : lista_arestas' = Append(lista_arestas, t)
    /\ UNCHANGED <<pc, lista_vertices, direcionado, G, avisos, dist_matrix,
                   prox_matrix, vertices_fw, alertas, idx_inicio, idx_fim,
                   atual_idx, caminho, passos, caminho_fw, ramo>>
    /\ UNCHANGED genvars

LoaderNext ==
    \/ EscolherTripla
    \/ CriarGrafo

SpecLoader == LoaderInit /\ [][LoaderNext]_vars

(***************************************************************************)
(* Reference definitions for the properties of the engine: shortest simple *)
(* paths and negative cycles by enumeration over the loaded graph G, with  *)
(* no use of the matrices.  Vertices are the 0-based canonical indices.    *)
(***************************************************************************)
Indices == 0..(Len(vertices_fw) - 1)

LabelOf(i) == vertices_fw[i + 1]

\* The least weight among the edges from index i to index j, Inf if none.
EdgeWeight(i, j) ==
    LET ws == {e[3] : e \in {x \in Range(GEdges(G)) :
                                x[1] = LabelOf(i) /\ x[2] = LabelOf(j)}}
    IN  IF ws = {} THEN Inf ELSE SetMin(ws)

\* The paths of P and all their extensions by up to r further edges to
\* vertices not yet on the path.
RECURSIVE ExtendPaths(_, _)
ExtendPaths(P, r) ==
    IF r = 0 \/ P = {} THEN P
    ELSE P \cup ExtendPaths(
             {Append(x[1], x[2]) : x \in
                 {y \in P \X Indices :
                     /\ y[2] \notin Range(y[1])
                     /\ EdgeWeight(y[1][Len(y[1])], y[2]) # Inf}},
             r - 1)

\* Every simple path that starts at i, as a sequence of indices.
SimplePathsFrom(i) == ExtendPaths({<<i>>}, Len(vertices_fw) - 1)

SimplePaths(i, j) == {p \in SimplePathsFrom(i) : p[Len(p)] = j}

RECURSIVE PathWeight(_)
PathWeight(p) ==
    IF Len(p) <= 1 THEN 0
    ELSE EdgeWeight(p[1], p[2]) + PathWeight(Tail(p))

MinSimplePath(i, j) ==
    IF SimplePaths(i, j) = {} THEN Inf
    ELSE SetMin({PathWeight(p) : p \in SimplePaths(i, j)})

Reaches(i, j) == SimplePaths(i, j) # {}

\* v lies on a simple cycle (a self-loop included) of negative total weight.
OnNegSimpleCycle(v) ==
    \E p \in SimplePathsFrom(v) :
        /\ EdgeWeight(p[Len(p)], v) # Inf
        /\ PathWeight(p) + EdgeWeight(p[Len(p)], v) < 0

HasNegCycle == \E v \in Indices : OnNegSimpleCycle(v)

\* v lies on a closed walk of negative total weight: it reaches, and is
\* reached from, a vertex on a negative simple cycle.
OnNegClosedWalk(v) ==
    \E c \in Indices : OnNegSimpleCycle(c) /\ Reaches(v, c) /\ Reaches(c, v)

IsDemo == lista_vertices = DemoVertices /\ lista_arestas = DemoArestas

(***************************************************************************)
(* C1: on a graph with no negative cycle, after floyd_warshall returns,    *)
(* dist[i][j] is the least total weight over the simple paths from i to j  *)
(* in the ascending-label ordering (parallel edges count with their least  *)
(* weight), and it is +infinity exactly when j is not reachable from i.    *)
(***************************************************************************)
C1_DistIsMinSimplePath ==
    (pc = "fw" /\ ~HasNegCycle) =>
        /\ vertices_fw = SortedLabels(Range(lista_vertices))
        /\ \A i \in Indices, j \in Indices :
              /\ dist_matrix[i][j] = MinSimplePath(i, j)
              /\ (dist_matrix[i][j] = Inf) <=> ~Reaches(i, j)

\* A graph with a negative edge and no negative cycle, given in descending
\* vertex order, where a relaxation beats a direct edge and some pair is
\* unreachable.
C1_Witness ==
    /\ pc = "fw"
    /\ ~HasNegCycle
    /\ lista_vertices[1] > lista_vertices[2]
    /\ \E e \in Range(lista_arestas) : e[3] < 0
    /\ \E i \in Indices, j \in Indices :
          EdgeWeight(i, j) # Inf /\ dist_matrix[i][j] < EdgeWeight(i, j)
    /\ \E i \in Indices, j \in Indices : dist_matrix[i][j] = Inf

(***************************************************************************)
(* C2: on a graph with no negative cycle, when reconstruir_caminho_floyd   *)
(* returns a label sequence it starts with the label of i, ends with the   *)
(* label of j, every consecutive pair is joined by an edge, and the least  *)
(* edge weights along it sum to dist[i][j]; on the 6-vertex scenario the   *)
(* path from 5 to 2 is 5,3,4,1,2 with cost 7.                              *)
(***************************************************************************)
PathIndices(itens) == [p \in DOMAIN itens |-> v_para_idx(vertices_fw, itens[p])]

C2_PathRealisesDist ==
    /\ (pc = "returned" /\ ~HasNegCycle /\ caminho_fw.tipo = "list") =>
          LET itens == caminho_fw.itens
              p == PathIndices(itens)
          IN  /\ Len(itens) >= 1
              /\ itens[1] = LabelOf(idx_inicio)
              /\ itens[Len(itens)] = LabelOf(idx_fim)
              /\ \A x \in 1..(Len(p) - 1) : EdgeWeight(p[x], p[x + 1]) # Inf
              /\ PathWeight(p) = dist_matrix[idx_inicio][idx_fim]
    /\ (pc = "returned" /\ IsDemo /\ LabelOf(idx_inicio) = 5 /\ LabelOf(idx_fim) = 2) =>
          /\ caminho_fw = PathList(<<5, 3, 4, 1, 2>>)
          /\ dist_matrix[idx_inicio][idx_fim] = 7

\* A returned path of three or more vertices with a negative edge on it.
C2_Witness ==
    /\ pc = "returned"
    /\ ~HasNegCycle
    /\ ~IsDemo
    /\ caminho_fw.tipo = "list"
    /\ Len(caminho_fw.itens) >= 3
    /\ dist_matrix[idx_inicio][idx_fim] < 0

(***************************************************************************)
(* C3 as stated: in the returned matrix dist[i][i] < 0 holds exactly for   *)
(* the vertices on a closed walk of negative total weight, and             *)
(* dist[i][i] = 0 for every other vertex.                                  *)
(***************************************************************************)
C3_DiagonalExactlyClosedWalks ==
    pc = "fw" =>
        \A i \in Indices :
            /\ (dist_matrix[i][i] < 0) <=> OnNegClosedWalk(i)
            /\ ~OnNegClosedWalk(i) => dist_matrix[i][i] = 0

(***************************************************************************)
(* C3 as amended: floyd_warshall returns on every graph; dist[i][i] < 0    *)
(* holds for every vertex on a simple cycle of negative total weight and   *)
(* only for vertices on a closed walk of negative total weight, and        *)
(* dist[i][i] = 0 wherever it is not negative; a warning is printed        *)
(* exactly for the vertices with dist[i][i] < 0, so a graph with no        *)
(* negative cycle has an all-zero diagonal and no warning, and a graph     *)
(* with a negative cycle has at least one.                                 *)
(***************************************************************************)
C3_DiagonalAmended ==
    pc = "fw" =>
        /\ \A i \in Indices :
              /\ OnNegSimpleCycle(i) => dist_matrix[i][i] < 0
              /\ dist_matrix[i][i] < 0 => OnNegClosedWalk(i)
              /\ dist_matrix[i][i] >= 0 => dist_matrix[i][i] = 0
        /\ alertas = {LabelOf(i) : i \in {x \in Indices : dist_matrix[x][x] < 0}}
        /\ ~HasNegCycle => alertas = {}
        /\ HasNegCycle => alertas # {}

\* A vertex on a negative closed walk but on no negative simple cycle keeps a
\* zero diagonal while another vertex is warned about.
C3_Witness ==
    /\ pc = "fw"
    /\ alertas # {}
    /\ \E i \in Indices :
          /\ OnNegClosedWalk(i)
          /\ ~OnNegSimpleCycle(i)
          /\ dist_matrix[i][i] = 0

(***************************************************************************)
(* C4: on the next-hop matrix of any graph, negative cycles included, the  *)
(* walk loop of reconstruir_caminho_floyd terminates after following prox  *)
(* at most n times.                                                        *)
(***************************************************************************)
C4_WalkWithinN == pc = "walk" => passos <= Len(vertices_fw)

(***************************************************************************)
(* C5: on a graph with no negative cycle the "no path" result comes back   *)
(* exactly when j is unreachable from i, and it is a value that tests as   *)
(* absent, so that the driver's "if caminho_fw" takes the "not found"      *)
(* branch for it and the path branch only for a label sequence.            *)
(***************************************************************************)
C5_NoPathTestsAbsent ==
    (pc = "printed" /\ ~HasNegCycle) =>
        /\ (caminho_fw.tipo # "list") <=> ~Reaches(idx_inicio, idx_fim)
        /\ (ramo = "nao_encontrado") <=> ~Reaches(idx_inicio, idx_fim)
        /\ ramo = "caminho" => caminho_fw.tipo = "list"

(***************************************************************************)
(* C6: an undirected generator edge list loaded with                       *)
(* criar_grafo(..., direcionado=False) is seeded in both directions, so    *)
(* for every input edge (u, v, w) both dist[u][v] and dist[v][u] are at    *)
(* most w and the returned matrix is symmetric.                            *)
(***************************************************************************)
C6_UndirectedSymmetric ==
    (pc = "fw" /\ direcionado = FALSE) =>
        /\ \A e \in Range(lista_arestas) :
              LET i == v_para_idx(vertices_fw, e[1])
                  j == v_para_idx(vertices_fw, e[2])
              IN  /\ ~Gt(dist_matrix[i][j], e[3])
                  /\ ~Gt(dist_matrix[j][i], e[3])
        /\ \A i \in Indices, j \in Indices :
              dist_matrix[i][j] = dist_matrix[j][i]

(***************************************************************************)
(* Reference definitions for the generators' graphs.                       *)
(***************************************************************************)
\* The vertices joined to a vertex of S by the edges es, in either direction,
\* and so on until nothing is added.
RECURSIVE Grow(_, _)
Grow(S, es) ==
    LET T == S \cup {e[2] : e \in {x \in Range(es) : x[1] \in S}}
               \cup {e[1] : e \in {x \in Range(es) : x[2] \in S}}
    IN  IF T = S THEN S ELSE Grow(T, es)

\* The vertices vs with the edges es form exactly one connected component.
OneComponent(vs, es) == vs # << >> /\ Grow({vs[1]}, es) = Range(vs)

\* No unordered pair occurs twice in es.
NoDuplicatePairs(es) ==
    \A x \in DOMAIN es, y \in DOMAIN es :
        x # y => es[x] # es[y] /\ es[x] # <<es[y][2], es[y][1]>>

GenFinished == gpc \in {"returned", "raised", "recorded"}

(***************************************************************************)
(* C7: for every n >= 1 and every shuffle order, grid_maze_like(n) returns *)
(* the vertices 1..n and edges that connect all of them: the union-find    *)
(* pass accepts exactly n-1 edges, a spanning tree, and the extra edges    *)
(* are candidate edges not in the tree, so no edge is duplicated.          *)
(***************************************************************************)
C7_MazeSpanning ==
    /\ (kind = "maze" /\ gpc = "maze_loop" /\ shuffled = {}) =>
          /\ Len(gen_edges) = n_vertices - 1
          /\ OneComponent(gen_vertices, gen_edges)
    /\ (kind = "maze" /\ gpc = "returned") =>
          LET tree == SubSeq(gen_edges, 1, n_vertices - 1)
              extra == SubSeq(gen_edges, n_vertices, Len(gen_edges))
              spare == Len(possible) - (n_vertices - 1)
          IN  /\ n_vertices >= 1
              /\ gen_vertices = [p \in 1..n_vertices |-> p]
              /\ Len(gen_edges) >= n_vertices - 1
              /\ OneComponent(gen_vertices, tree)
              /\ OneComponent(gen_vertices, gen_edges)
              /\ Range(gen_edges) \subseteq Range(possible)
              /\ Range(extra) \cap Range(tree) = {}
              /\ NoDuplicatePairs(gen_edges)
              /\ Len(extra) = IF Extras(possible) < spare THEN Extras(possible)
                              ELSE spare

\* A returned maze whose loop turned candidates down and that got an extra
\* edge.
C7_Witness ==
    /\ kind = "maze"
    /\ gpc = "returned"
    /\ Len(gen_edges) = n_vertices
    /\ Len(possible) > Len(gen_edges)

(***************************************************************************)
(* C8: for every n >= 1 and every removal sample, hypercube_graph(n)       *)
(* returns vertices and edges that form exactly one connected component,   *)
(* every edge with both endpoints among the returned vertices, and the     *)
(* 'actual_vertices' make_all_graphs records is the length of the          *)
(* returned vertex list.                                                   *)
(***************************************************************************)
C8_CubeOneComponent ==
    (kind = "hypercube" /\ gpc \in {"returned", "recorded"} /\ n_vertices >= 1) =>
        /\ OneComponent(gen_vertices, gen_edges)
        /\ \A e \in Range(gen_edges) :
              e[1] \in Range(gen_vertices) /\ e[2] \in Range(gen_vertices)
        /\ gpc = "recorded" => meta.actual_vertices = Len(gen_vertices)

\* A removal that disconnected the hypercube: fewer vertices than asked for
\* came back, still joined by edges, and the count was recorded.
C8_Witness ==
    /\ kind = "hypercube"
    /\ gpc = "recorded"
    /\ Len(gen_vertices) < n_vertices
    /\ Len(gen_vertices) >= 2
    /\ gen_edges # << >>

(***************************************************************************)
(* C9: a generator called with n < 1, and random_geometric_graph called    *)
(* with a negative radius, ends in an error and returns no graph; n = 1    *)
(* returns the single vertex 1 and no edge.  (Any exception counts as the  *)
(* error here.)                                                            *)
(***************************************************************************)
C9_InvalidRejected ==
    LET invalid == n_vertices < 1 \/ (kind = "geometric" /\ radius < 0)
    IN  /\ (GenFinished /\ invalid) =>
              /\ gpc = "raised"
              /\ gen_vertices = << >>
              /\ gen_edges = << >>
        /\ (GenFinished /\ ~invalid /\ n_vertices = 1) =>
              /\ outcome = "returned"
              /\ gen_vertices = <<1>>
              /\ gen_edges = << >>

(***************************************************************************)
(* C10 as stated: random_geometric_graph(n, radius=0) returns no edge for  *)
(* every n and every placement of the points, coincident points included.  *)
(***************************************************************************)
C10_RadiusZeroNoEdges ==
    (kind = "geometric" /\ gpc = "returned" /\ radius = 0) => gen_edges = << >>

(***************************************************************************)
(* C10 as amended: random_geometric_graph(n, radius=0) returns no edge for *)
(* every n and every placement of pairwise distinct points; with radius 0  *)
(* the edges are exactly the pairs of coincident points.                   *)
(***************************************************************************)
Coincident ==
    {ij \in (DOMAIN points) \X (DOMAIN points) :
        ij[1] < ij[2] /\ points[ij[1]] = points[ij[2]]}

C10_RadiusZeroAmended ==
    (kind = "geometric" /\ gpc = "returned" /\ radius = 0) =>
        /\ Range(gen_edges) = Coincident
        /\ Coincident = {} => gen_edges = << >>

\* Several pairwise distinct points, radius 0, no edge.
C10_Witness ==
    /\ kind = "geometric"
    /\ gpc = "returned"
    /\ radius = 0
    /\ n_vertices >= 2
    /\ Coincident = {}
    /\ gen_edges = << >>

(***************************************************************************)
(* C11: for every n >= 1, grid_graph(n) without diagonals returns exactly  *)
(* the vertices 1..n, the first n row-major cells of a lattice with        *)
(* ceil(sqrt(n)) columns; every edge joins a cell to its right or below    *)
(* neighbour among the kept cells (and every such pair is an edge); no     *)
(* unordered pair appears twice; the graph is connected; and for n = 9 it  *)
(* is the 3x3 lattice with exactly 12 edges.                               *)
(***************************************************************************)
\* The number of columns, from its defining inequality (c-1)^2 < n <= c^2.
Columns(n) == CHOOSE c \in 1..n : (c - 1) * (c - 1) < n /\ n <= c * c

\* Labels u < v of 1..n are the cells of a right or below neighbour pair.
LatticeNeighbours(n, u, v) ==
    LET cols == Columns(n)
    IN  \/ v = u + 1 /\ (u - 1) \div cols = (v - 1) \div cols
        \/ v = u + cols

KnownTriple(t) == t[1] \in Range(lista_vertices) /\ t[2] \in Range(lista_vertices)

UnknownTriple(t) == ~KnownTriple(t)

C12_LoaderSkipsUnknown ==
    pc = "loaded" =>
        LET skipped == SelectSeq(lista_arestas, UnknownTriple)
        IN  /\ GVertices(G) = lista_vertices
            /\ GEdges(G) = SelectSeq(lista_arestas, KnownTriple)
            /\ avisos = [k \in 1..Len(skipped) |-> <<skipped[k][1], skipped[k][2]>>]
            /\ Len(GEdges(G)) + Len(avisos) = Len(lista_arestas)

\* A loaded list whose second triple was skipped and whose third was still
\* inserted, after the first.
C12_Witness ==
    /\ pc = "loaded"
    /\ Len(lista_arestas) = 3
    /\ KnownTriple(lista_arestas[1])
    /\ UnknownTriple(lista_arestas[2])
    /\ KnownTriple(lista_arestas[3])
    /\ lista_arestas[1] # lista_arestas[3]
    /\ GEdges(G) = <<lista_arestas[1], lista_arestas[3]>>
    /\ Len(avisos) = 1

(***************************************************************************)
(* C13: when the removal disconnects the hypercube, the component that     *)
(* hypercube_graph keeps is a largest connected component of the           *)
(* surviving vertices: for every n and every removal sample no discarded   *)
(* component has more vertices than the returned vertex list, and the      *)
(* returned vertex count never exceeds n.                                  *)
(***************************************************************************)
\* The dimension, from its defining inequality 2^(d-1) < n <= 2^d.
Dimension(n) == CHOOSE d \in 0..n : 2^d >= n /\ (d = 0 \/ 2^(d - 1) < n)

\* The vertices left after the removal, as numbers 0..2^d-1.
Surviving == (0..(2^Dimension(n_vertices) - 1)) \ to_remove

\* a and b differ in exactly one bit.
OneBitApart(a, b) ==
    \E k \in 0..(Dimension(n_vertices) - 1) :
        \/ b = a + 2^k /\ (a \div 2^k) % 2 = 0
        \/ a = b + 2^k /\ (b \div 2^k) % 2 = 0

\* The surviving vertices joined to S, to the end.
RECURSIVE SurvivingComponent(_)
SurvivingComponent(S) ==
    LET T == S \cup {b \in Surviving : \E a \in S : OneBitApart(a, b)}
    IN  IF T = S THEN S ELSE SurvivingComponent(T)

C13_KeepsLargestComponent ==
    (kind = "hypercube" /\ gpc \in {"returned", "recorded"} /\ n_vertices >= 1) =>
        /\ Len(gen_vertices) <= n_vertices
        /\ \A v \in Surviving :
              Cardinality(SurvivingComponent({v})) <= Len(gen_vertices)

====
